---------------------------- MODULE Spec2Model ----------------------------
(***************************************************************************)
(* State-machine model of the arbitrage monitor:                           *)
(*   - the chain-agnostic spread logger (spread-logger.js): quoteAlgebra,  *)
(*     calculateRoundTrips, trackPersistence, poll;                        *)
(*   - the Mantle block poller (pollBlock / checkPair).                    *)
(*   - helpers/logger.js (logOpportunity) and quoteLB.                     *)
(* Percentages are the integers parseFloat(x.toFixed(4)) * 10^4, so 0.3%   *)
(* is 3000.  Each component has its own specification; the variables of    *)
(* the other components keep their initial value there.                    *)
(***************************************************************************)
EXTENDS Integers, Sequences, FiniteSets, TLC

VARIABLES
    \* ---- spread logger: tracker and statistics (globals, lines 154-155)
    spikeTracker,   \* key -> SpikeState | NoSpike
    stats,          \* <<pair, notional>> -> statistics record
    events,         \* key -> the PERSISTENT lines printed for it, in order
    obsLog,         \* history: key -> the spreads passed to trackPersistence
    \* ---- quoteAlgebra
    algebraAbiVersion,  \* the module-level cache: Null, "v1" or "v2"
    calls,              \* the activations of quoteAlgebra, in start order
    deployed,           \* dex -> the schema variant its quoter really has
    \* ---- calculateRoundTrips (one activation)
    rt,
    \* ---- spread logger poll loop
    polls,          \* poll activation id -> record
    timerOn,        \* setInterval(poll, ...) has been called
    cycle,          \* the closure variable `cycle`
    outFile,        \* the lines appended to the JSONL file, in order
    exited,         \* the SIGINT handler ran: process.exit(0)
    summaryFile,    \* summary_latest.txt as last written, or NoReport
    finalReport,    \* the FINAL REPORT printed by the SIGINT handler
    \* ---- block poller
    lastBlock,      \* let lastBlock = 0
    isChecking,     \* let isChecking = false
    pollers,        \* the activations of pollBlock that reached an await
    chainHead,      \* the chain's current block number (the RPC's answer)
    monStats,       \* the logger's counters used here: errors, swapsDetected
    \* ---- helpers/logger.js
    lastLogged,     \* pair -> { spread, direction, ts } | NoLast
    logStats,       \* the counters logOpportunity writes
    logDir,         \* LOG_DIR: hour stamp of a paper_trades file -> its size
    pendingWrites,  \* fs.appendFile calls whose callback has not run yet
    now,            \* Date.now(), in milliseconds
    logCall,        \* history: the last logOpportunity call and its result
    \* ---- quoteLB (one activation)
    lb

trackVars == <<spikeTracker, stats, events, obsLog>>
algVars   == <<algebraAbiVersion, calls, deployed>>
rtVars    == <<rt>>
pollVars  == <<polls, timerOn, cycle, outFile, exited, summaryFile,
               finalReport>>
blockVars == <<lastBlock, isChecking, pollers, chainHead, monStats>>
logVars   == <<lastLogged, logStats, logDir, pendingWrites, now, logCall>>
lbVars    == <<lb>>
vars      == <<spikeTracker, stats, events, obsLog, algebraAbiVersion, calls,
               deployed, rt, polls, timerOn, cycle, outFile, exited,
               summaryFile, finalReport,
               lastBlock, isChecking, pollers, chainHead, monStats,
               lastLogged, logStats, logDir, pendingWrites, now, logCall,
               lb>>

Null == "null"
\* nothing written or printed yet
NoReport == [verdict |-> Null]

\* ------------------------------------------------------------------------
\* Small general helpers
\* ------------------------------------------------------------------------
Range(s) == { s[i] : i \in 1..Len(s) }

MaxOf(a, b) == IF a >= b THEN a ELSE b

RECURSIVE SeqMax(_)
SeqMax(s) ==
    IF Len(s) = 1 THEN s[1] ELSE MaxOf(s[1], SeqMax(Tail(s)))

RECURSIVE SumOver(_, _)
\* the sum of f[x] over the finite set S
SumOver(f, S) ==
    IF S = {} THEN 0
    ELSE LET x == CHOOSE y \in S : TRUE IN f[x] + SumOver(f, S \ {x})

\* ------------------------------------------------------------------------
\* Configuration of the spread logger
\* ------------------------------------------------------------------------
Pairs      == {"P1"}
Directions == {"A>B", "B>A"}
Notionals  == {100, 300}
Keys       == Pairs \X Directions \X Notionals
StatKeys   == Pairs \X Notionals

\* spread >= 0.3 in trackPersistence
SPIKE_THRESHOLD == 3000
\* dur >= 2
MIN_PERSIST == 2

\* the spreads an observation may carry (0.1% .. 0.5%, and a loss)
Spreads == {-4000, 1000, 2000, 3000, 4000, 5000}

\* bound: number of trackPersistence calls explored
MaxObs == 4

NoSpike == [count |-> 0, maxSpread |-> 0, startBlock |-> 0]

\* initStats(name, notional)
InitialStat ==
    [checks |-> 0, spikes03 |-> 0, spikes05 |-> 0, spikes1 |-> 0,
     bestSpread |-> -9990000, persistent2 |-> 0, totalNetPct |-> 0]

\* ------------------------------------------------------------------------
\* trackPersistence(pairName, direction, spreadPct, block, notional)
\* ------------------------------------------------------------------------
AboveThreshold_Strict(spread) == spread > SPIKE_THRESHOLD
AboveThreshold(spread) == spread >= SPIKE_THRESHOLD

EmitsEvent_NoMin(st) == st.count >= 1
\* the spike ended: is a PersistenceEvent printed and counted?
EmitsEvent(st) == st.count >= 1 /\ st.count >= MIN_PERSIST

SpikeAfter_KeepShort(st, spread, block) ==
    IF AboveThreshold(spread)
    THEN IF st = NoSpike
         THEN [count |-> 1, maxSpread |-> spread, startBlock |-> block]
         ELSE [st EXCEPT !.count = st.count + 1,
                         !.maxSpread = MaxOf(st.maxSpread, spread)]
    ELSE IF st.count >= MIN_PERSIST THEN NoSpike ELSE st
\* the SpikeState of the key after the call (NoSpike: entry deleted/absent)
SpikeAfter(st, spread, block) ==
    IF AboveThreshold(spread)
    THEN IF st = NoSpike
         THEN [count |-> 1, maxSpread |-> spread, startBlock |-> block]
         ELSE [st EXCEPT !.count = st.count + 1,
                         !.maxSpread = MaxOf(st.maxSpread, spread)]
    ELSE NoSpike

\* the event printed by the call, as a sequence of length 0 or 1
EventOf(key, st, spread) ==
    IF ~AboveThreshold(spread) /\ EmitsEvent(st)
    THEN << [duration |-> st.count, maxSpread |-> st.maxSpread] >>
    ELSE << >>

\* stats after the call: if (stats[sKey]) stats[sKey].persistent2++
StatsAfterTrack(sts, key, st, spread) ==
    LET sKey == <<key[1], key[3]>> IN
    IF ~AboveThreshold(spread) /\ EmitsEvent(st) /\ sKey \in DOMAIN sts
    THEN [sts EXCEPT ![sKey].persistent2 = @ + 1]
    ELSE sts

TrackerKey_PairOnly(pairName, direction, notional) ==
    <<pairName, "A>B", 100>>
\* const key = `${pairName}_${direction}_${notional}`
TrackerKey(pairName, direction, notional) == <<pairName, direction, notional>>

\* `key` holds the arguments pairName, direction, notional; the printed
\* event and the history are those of the arguments, the SpikeState is the
\* one under the key built from them
trackPersistence(key, spread, block) ==
    LET k == TrackerKey(key[1], key[2], key[3]) IN
    /\ spikeTracker' = [spikeTracker EXCEPT
                           ![k] = SpikeAfter(spikeTracker[k], spread, block)]
    /\ events' = [events EXCEPT
                     ![key] = @ \o EventOf(key, spikeTracker[k], spread)]
    /\ stats' = StatsAfterTrack(stats, key, spikeTracker[k], spread)
    /\ obsLog' = [obsLog EXCEPT ![key] = Append(@, spread)]

\* ------------------------------------------------------------------------
\* Idle values of each component (used by the other specifications)
\* ------------------------------------------------------------------------
TrackInit ==
    /\ spikeTracker = [k \in Keys |-> NoSpike]
    /\ stats = [s \in StatKeys |-> InitialStat]
    /\ events = [k \in Keys |-> << >>]
    /\ obsLog = [k \in Keys |-> << >>]

AlgIdle ==
    /\ algebraAbiVersion = Null
    /\ calls = << >>
    /\ deployed = [d \in {"D1"} |-> "v1"]

RtIdle == rt = [pc |-> "idle"]

PollIdle ==
    /\ polls = << >>
    /\ timerOn = FALSE
    /\ cycle = 0
    /\ outFile = << >>
    /\ exited = FALSE
    /\ summaryFile = NoReport
    /\ finalReport = NoReport

BlockIdle ==
    /\ lastBlock = 0
    /\ isChecking = FALSE
    /\ pollers = << >>
    /\ chainHead = 1
    /\ monStats = [errors |-> 0, swapsDetected |-> 0]

\* helpers/logger.js before its first call.  Times are milliseconds; the
\* process starts in the hour with stamp StartHour.
HOUR_MS == 3600000
StartHour == 50
NoLast == [spread |-> 0, direction |-> Null, ts |-> 0]
NoCall == [n |-> 0]

LogIdle ==
    /\ lastLogged = [p \in {"X/Y", "Z/Y"} |-> NoLast]
    /\ logStats = [opportunitiesLogged |-> 0, opportunitiesSuppressed |-> 0,
                   errors |-> 0]
    /\ logDir = << >>
    /\ pendingWrites = << >>
    /\ now = StartHour * HOUR_MS
    /\ logCall = NoCall

\* quoteLB not called
LbIdle == lb = [pc |-> "idle"]

\* ------------------------------------------------------------------------
\* Specification of the tracker: any sequence of observations
\* ------------------------------------------------------------------------
NumObs == SumOver([k \in Keys |-> Len(obsLog[k])], Keys)

Observe ==
    /\ NumObs < MaxObs
    \* the block passed is the observation index of the key
    /\ \E key \in Keys, spread \in Spreads :
          trackPersistence(key, spread, Len(obsLog[key]) + 1)
    /\ UNCHANGED <<algVars, rtVars, lbVars, logVars, pollVars, blockVars>>

InitTrack == TrackInit /\ AlgIdle /\ RtIdle /\ PollIdle /\ BlockIdle /\ LogIdle /\ LbIdle
NextTrack == Observe
SpecTrack == InitTrack /\ [][NextTrack]_vars

\* ------------------------------------------------------------------------
\* quoteAlgebra(dexConfig, tokenIn, tokenOut, amountIn)
\* Every `await q.quoteExactInputSingle.staticCall(...)` is a suspension
\* point: other activations may run between the request and its outcome.
\* ------------------------------------------------------------------------
\* the configured dexes of type "algebra"
AlgebraDexes == {"D1", "D2"}
Variants == {"v1", "v2"}

\* bound: number of quoteAlgebra activations explored
MaxCalls == 3

\* What a quoter answers to a call encoded for `variant`: a quoter deployed
\* with the other variant has no function with that selector and rejects
\* every such call; a matching call succeeds or fails for a market reason.
VenueOutcomes(dep, variant) ==
    IF dep = variant THEN {"ok", "noLiquidity", "unreachable"}
    ELSE {"schema", "unreachable"}

EnterFirstBlock_Always(ver) == TRUE
\* if (algebraAbiVersion === "v1" || algebraAbiVersion === null)
EnterFirstBlock(ver) == ver = "v1" \/ ver = Null

\* if (algebraAbiVersion === "v2" || algebraAbiVersion === null)
EnterSecondBlock(ver) == ver = "v2" \/ ver = Null

RethrowFirst_Never(ver) == FALSE
RethrowFirst_Always(ver) == TRUE
\* catch (e) { if (algebraAbiVersion === "v1") throw e }
RethrowFirst(ver) == ver = "v1"

CacheAfterSuccess_Overwrite(ver, variant) == variant
\* if (!algebraAbiVersion) { algebraAbiVersion = variant }
CacheAfterSuccess(ver, variant) == IF ver = Null THEN variant ELSE ver

NewCall(d, ver) ==
    [dex |-> d, entryVer |-> ver, catchVer |-> Null, outcomes |-> << >>,
     attempts |-> IF EnterFirstBlock(ver) THEN <<"v1">>
                  ELSE IF EnterSecondBlock(ver) THEN <<"v2">> ELSE << >>,
     pc |-> IF EnterFirstBlock(ver) THEN "awaitV1"
            ELSE IF EnterSecondBlock(ver) THEN "awaitV2" ELSE "undefined"]

\* a caller (getQuote) enters quoteAlgebra for dex d: runs up to the first await
StartCall(d) ==
    /\ Len(calls) < MaxCalls
    /\ calls' = Append(calls, NewCall(d, algebraAbiVersion))
    /\ UNCHANGED <<algebraAbiVersion, deployed>>
    /\ UNCHANGED <<trackVars, rtVars, lbVars, logVars, pollVars, blockVars>>

\* the V1 call resolved: cache if nothing is cached, return r[0]
V1Ok(c) ==
    /\ calls[c].pc = "awaitV1"
    /\ "ok" \in VenueOutcomes(deployed[calls[c].dex], "v1")
    /\ algebraAbiVersion' = CacheAfterSuccess(algebraAbiVersion, "v1")
    /\ calls' = [calls EXCEPT ![c].pc = "returned",
                              ![c].outcomes = Append(@, "ok")]
    /\ UNCHANGED deployed
    /\ UNCHANGED <<trackVars, rtVars, lbVars, logVars, pollVars, blockVars>>

\* the V1 call rejected with `reason`: the catch, then the second block
V1Fail(c, reason) ==
    /\ calls[c].pc = "awaitV1"
    /\ reason \in VenueOutcomes(deployed[calls[c].dex], "v1") \ {"ok"}
    /\ calls' = [calls EXCEPT
          ![c].outcomes = Append(@, reason),
          ![c].catchVer = algebraAbiVersion,
          ![c].pc = IF RethrowFirst(algebraAbiVersion) THEN "thrown"
                    ELSE IF EnterSecondBlock(algebraAbiVersion) THEN "awaitV2"
                    ELSE "undefined",
          ![c].attempts = IF ~RethrowFirst(algebraAbiVersion)
                             /\ EnterSecondBlock(algebraAbiVersion)
                          THEN Append(@, "v2") ELSE @]
    /\ UNCHANGED <<algebraAbiVersion, deployed>>
    /\ UNCHANGED <<trackVars, rtVars, lbVars, logVars, pollVars, blockVars>>

\* the V2 call resolved
V2Ok(c) ==
    /\ calls[c].pc = "awaitV2"
    /\ "ok" \in VenueOutcomes(deployed[calls[c].dex], "v2")
    /\ algebraAbiVersion' = CacheAfterSuccess(algebraAbiVersion, "v2")
    /\ calls' = [calls EXCEPT ![c].pc = "returned",
                              ![c].outcomes = Append(@, "ok")]
    /\ UNCHANGED deployed
    /\ UNCHANGED <<trackVars, rtVars, lbVars, logVars, pollVars, blockVars>>

\* the V2 call rejected: both branches of the catch throw
V2Fail(c, reason) ==
    /\ calls[c].pc = "awaitV2"
    /\ reason \in VenueOutcomes(deployed[calls[c].dex], "v2") \ {"ok"}
    /\ calls' = [calls EXCEPT ![c].pc = "thrown",
                              ![c].outcomes = Append(@, reason)]
    /\ UNCHANGED <<algebraAbiVersion, deployed>>
    /\ UNCHANGED <<trackVars, rtVars, lbVars, logVars, pollVars, blockVars>>

FailReasons == {"schema", "noLiquidity", "unreachable"}

AlgInit ==
    /\ algebraAbiVersion = Null
    /\ calls = << >>
    /\ deployed \in [AlgebraDexes -> Variants]

InitAlgebra == AlgInit /\ TrackInit /\ RtIdle /\ PollIdle /\ BlockIdle /\ LogIdle /\ LbIdle
NextAlgebra ==
    \/ \E d \in AlgebraDexes : StartCall(d)
    \/ \E c \in DOMAIN calls : V1Ok(c)
    \/ \E c \in DOMAIN calls, r \in FailReasons : V1Fail(c, r)
    \/ \E c \in DOMAIN calls : V2Ok(c)
    \/ \E c \in DOMAIN calls, r \in FailReasons : V2Fail(c, r)
SpecAlgebra == InitAlgebra /\ [][NextAlgebra]_vars

Finished(c) == calls[c].pc \in {"returned", "thrown", "undefined"}

\* C5: a call that starts with a cached variant attempts that variant only:
\* one venue call, never the other variant.
C5_CachedVariantOnly ==
    \A c \in DOMAIN calls :
        calls[c].entryVer # Null => calls[c].attempts = << calls[c].entryVer >>

C5_Witness ==
    \E c \in DOMAIN calls :
        /\ calls[c].entryVer = "v2"
        /\ calls[c].pc = "returned"
        /\ calls[c].attempts = <<"v2">>

\* C6: when the call of an already cached variant fails, quoteAlgebra throws,
\* has attempted only that variant, and the cache still holds it.
C6_CachedFailureSurfaces ==
    \A c \in DOMAIN calls :
        (calls[c].entryVer # Null /\ calls[c].outcomes # << >>
           /\ calls[c].outcomes[1] # "ok")
        => /\ calls[c].pc = "thrown"
           /\ calls[c].attempts = << calls[c].entryVer >>
           /\ algebraAbiVersion = calls[c].entryVer

C6_Witness ==
    \E c \in DOMAIN calls :
        /\ calls[c].entryVer = "v1"
        /\ calls[c].outcomes = <<"noLiquidity">>
        /\ calls[c].pc = "thrown"

C8_OwnVariantAttempted ==
    \A c \in DOMAIN calls :
        Finished(c) =>
            \E i \in 1..Len(calls[c].attempts) :
                calls[c].attempts[i] = deployed[calls[c].dex]

\* `throw e`: the error that reaches getQuote's caller is the rejection of
\* the last venue call made
ThrownError(c) == calls[c].outcomes[Len(calls[c].outcomes)]

\* C31 (as claimed): the failure that reaches the caller carries the class
\* of the venue's failure: when the venue was asked in the schema it is
\* deployed with and rejected the call, that rejection's class is the one
\* thrown, so a venue without liquidity and a schema mismatch differ.
C31_FailureClassReachesCaller ==
    \A c \in DOMAIN calls :
        calls[c].pc = "thrown" =>
            \A x \in 1..Len(calls[c].outcomes) :
                calls[c].attempts[x] = deployed[calls[c].dex]
                    => ThrownError(c) = calls[c].outcomes[x]

\* C32: in every step the cache, once non-null, keeps its value; it is
\* set only by a call whose venue call with that variant just succeeded;
\* and every call is awaiting a venue call, has returned the output or has
\* thrown, never completed without a result.
C32_CacheWriteOnce ==
    [][/\ algebraAbiVersion # Null => algebraAbiVersion' = algebraAbiVersion
       /\ algebraAbiVersion' # algebraAbiVersion =>
             \E c \in DOMAIN calls :
                /\ calls[c].pc \in {"awaitV1", "awaitV2"}
                /\ calls'[c].pc = "returned"
                /\ ThrownError(c)' = "ok"
                /\ calls[c].attempts[Len(calls[c].attempts)] = algebraAbiVersion'
       /\ \A c \in DOMAIN calls' :
             calls'[c].pc \in {"awaitV1", "awaitV2", "returned", "thrown"}]_vars

\* a call that started detection with nothing cached got its output from
\* the second variant after another call had cached v1: the cache is v1
C32_Witness ==
    /\ algebraAbiVersion = "v1"
    /\ \E c \in DOMAIN calls :
          /\ calls[c].pc = "returned"
          /\ calls[c].attempts = <<"v1", "v2">>

\* ------------------------------------------------------------------------
\* calculateRoundTrips(pair, notionalUSD): one activation.  Amounts are
\* BigInt native units; NullAmt stands for JavaScript null (no output).
\* ------------------------------------------------------------------------
NullAmt == -1

\* pair.venues of the configured pairs, in configuration order; a venue is
\* { dex, fee }: A5 is DEX A at another fee tier
VenueLists == { <<"A", "B">>, <<"A", "B", "C">>, <<"A", "A5">> }
\* venue.dex
DexOf == [A |-> "A", B |-> "B", C |-> "C", A5 |-> "A"]
\* the first asset of a pair: reference price in USD (0: not priced) and
\* decimals
BaseAssets ==
    { [priceUSD |-> 0, decimals |-> 0], [priceUSD |-> 1, decimals |-> 0],
      [priceUSD |-> 3, decimals |-> 0], [priceUSD |-> 3, decimals |-> 2] }
\* the notionals calculateRoundTrips is called with, in USD
RtNotionals == {200, 1000}
\* the calls explored: every asset and notional on two venues with the
\* default gas cost of 0.10 USD (in cents), and a stable asset with a gas
\* cost of 0.05 USD on every venue list
RtInputs ==
    { [venues |-> <<"A", "B">>, t0 |-> t, notionalUSD |-> n, gas |-> 10] :
         t \in BaseAssets, n \in RtNotionals }
    \cup { [venues |-> vs, t0 |-> [priceUSD |-> 1, decimals |-> 0],
             notionalUSD |-> 1000, gas |-> 5] : vs \in VenueLists }
\* what a venue may answer to a forward quote (NullAmt: getQuote threw)
FwdReplies == {NullAmt, 0, 500}
\* what a venue may answer to a reverse quote
RevReplies == {NullAmt, 990, 1004}

RoundDiv(num, den) ==
    IF num >= 0 THEN (2 * num + den) \div (2 * den)
    ELSE -((2 * (-num) + den) \div (2 * den))

\* Math.abs
Abs(x) == IF x < 0 THEN -x ELSE x

RECURSIVE Pow10(_)
Pow10(d) == IF d = 0 THEN 1 ELSE 10 * Pow10(d - 1)

RECURSIVE ScaledDiv(_, _, _)
\* num * 10^k / den for num >= 0, rounded to the nearest integer, one
\* decimal digit at a time
ScaledDiv(num, den, k) ==
    IF k = 0 THEN (num \div den) + (IF 2 * (num % den) >= den THEN 1 ELSE 0)
    ELSE (num \div den) * Pow10(k) + ScaledDiv((num % den) * 10, den, k - 1)

\* x.toFixed(k) of num / den, in units of 10^-k
ToFixed(num, den, k) ==
    IF num >= 0 THEN ScaledDiv(num, den, k) ELSE -ScaledDiv(-num, den, k)

SpreadPct_Ratio(amountIn, amountBack) ==
    ToFixed(amountBack * 100, amountIn, 4)
\* ((outUSD - inUSD) / inUSD * 100).toFixed(4), in units of 10^-4 percent;
\* the reference price multiplies both amounts and cancels
SpreadPct(amountIn, amountBack) ==
    ToFixed((amountBack - amountIn) * 100, amountIn, 4)

\* if (!t0.priceUSD || t0.priceUSD <= 0) return []
Priced(t0) == t0.priceUSD > 0

\* ethers.parseUnits((notionalUSD / t0.priceUSD)
\*                      .toFixed(Math.min(t0.decimals, 8)), t0.decimals)
AmountIn0(notionalUSD, t0) ==
    LET d == IF t0.decimals < 8 THEN t0.decimals ELSE 8 IN
    ToFixed(notionalUSD, t0.priceUSD, d) * Pow10(t0.decimals - d)

NetPct_NoGas(amountIn, amountBack, t0, gas) ==
    ToFixed((amountBack - amountIn) * 100, amountIn, 4)
\* netPct = (netUSD / inUSD * 100).toFixed(4), netUSD = outUSD - inUSD -
\* GAS_COST_USD; amounts valued at the reference price, in cents times
\* 10^decimals
NetPct(amountIn, amountBack, t0, gas) ==
    ToFixed(((amountBack - amountIn) * t0.priceUSD * 100
               - gas * Pow10(t0.decimals)) * 100,
            amountIn * t0.priceUSD * 100, 4)

\* a venue that gives 2 asset1 per asset0, asked for the forward quote
SellAtTwo(r) == IF r.pc = "forward" THEN 2 * r.amountIn0 ELSE NullAmt
\* a venue that gives 0.5 asset0 per asset1, asked for the reverse quote
BuyAtHalf(r) ==
    IF r.pc = "reverse" THEN r.forwardQuotes[r.i].amountOut \div 2 ELSE NullAmt

ForwardEntry_ZeroOnFail(v, reply) ==
    [venue |-> v, amountOut |-> IF reply = NullAmt THEN 0 ELSE reply,
     error |-> FALSE]
\* forwardQuotes.push({venue, amountOut: out}) or, in the catch,
\* forwardQuotes.push({venue, amountOut: null, error})
ForwardEntry(v, reply) ==
    IF reply = NullAmt
    THEN [venue |-> v, amountOut |-> NullAmt, error |-> TRUE]
    ELSE [venue |-> v, amountOut |-> reply, error |-> FALSE]

\* if (!buyQ.amountOut) continue  -- null and 0n are both falsy
Falsy(amountOut) == amountOut = NullAmt \/ amountOut = 0

\* the positions (i, j) of the double loop, in iteration order, from (i, j) on
LoopFrom(n, i, j) ==
    { p \in (1..n) \X (1..n) : p[1] > i \/ (p[1] = i /\ p[2] >= j) }

\* the reverse quotes the loop still requests from position (i, j) on
Requested(fq, i, j) ==
    { p \in LoopFrom(Len(fq), i, j) : p[1] # p[2] /\ ~Falsy(fq[p[1]].amountOut) }

\* the first position that requests a reverse quote, <<0, 0>> if none
FirstRequest(fq, i, j) ==
    LET R == Requested(fq, i, j) IN
    IF R = {} THEN <<0, 0>>
    ELSE CHOOSE p \in R :
            \A q \in R : p[1] < q[1] \/ (p[1] = q[1] /\ p[2] <= q[2])

\* enter or continue the double loop at (i, j): await the next getQuote, or
\* return results
ContinueReverse(r, i, j) ==
    LET p == FirstRequest(r.forwardQuotes, i, j) IN
    IF p = <<0, 0>>
    THEN [r EXCEPT !.pc = "done", !.i = 0, !.j = 0]
    ELSE [r EXCEPT !.pc = "reverse", !.i = p[1], !.j = p[2],
                   !.asked = Append(@, <<p[1], p[2],
                                         r.forwardQuotes[p[1]].amountOut>>)]

RtCall(venues, t0, notionalUSD, gas) ==
    [pc |-> "forward", venues |-> venues, priced |-> Priced(t0),
     t0 |-> t0, notionalUSD |-> notionalUSD, gas |-> gas,
     amountIn0 |-> IF Priced(t0) THEN AmountIn0(notionalUSD, t0) ELSE 0,
     k |-> 1, i |-> 0, j |-> 0,
     forwardQuotes |-> << >>, results |-> << >>,
     fwdReply |-> << >>, asked |-> << >>, revReply |-> << >>]

\* the call, up to its first await: the guards on t0/t1 and the price
RtStart(venues, t0, notionalUSD, gas) ==
    /\ rt.pc = "idle"
    /\ rt' = IF ~Priced(t0)
             THEN [RtCall(venues, t0, notionalUSD, gas) EXCEPT !.pc = "done"]
             ELSE RtCall(venues, t0, notionalUSD, gas)
    /\ UNCHANGED <<trackVars, algVars, lbVars, logVars, pollVars, blockVars>>

\* the forward getQuote of venue k settled; push, sleep, next venue or the
\* double loop
ForwardReply(reply) ==
    /\ rt.pc = "forward"
    /\ LET r1 == [rt EXCEPT
                    !.forwardQuotes = Append(@, ForwardEntry(rt.venues[rt.k], reply)),
                    !.fwdReply = Append(@, reply),
                    !.k = @ + 1]
       IN rt' = IF rt.k < Len(rt.venues) THEN r1
                ELSE ContinueReverse(r1, 1, 1)
    /\ UNCHANGED <<trackVars, algVars, lbVars, logVars, pollVars, blockVars>>

RoundTrip(r, amountBack) ==
    [direction |-> <<DexOf[r.forwardQuotes[r.i].venue], DexOf[r.venues[r.j]]>>,
     i |-> r.i, j |-> r.j,
     amountBack |-> amountBack,
     spreadPct |-> SpreadPct(r.amountIn0, amountBack),
     netPct |-> NetPct(r.amountIn0, amountBack, r.t0, r.gas)]

ResultsAfter_DropOnFail(r, reply) ==
    IF reply = NullAmt THEN << >> ELSE Append(r.results, RoundTrip(r, reply))
\* results after the reverse getQuote at (i, j) settled: results.push(...)
\* in the try, nothing in `catch {}`
ResultsAfter(r, reply) ==
    IF reply = NullAmt THEN r.results
    ELSE Append(r.results, RoundTrip(r, reply))

\* the reverse getQuote at (i, j) settled; push a RoundTrip or swallow the
\* error, sleep, go on with the loop
ReverseReply(reply) ==
    /\ rt.pc = "reverse"
    /\ LET r1 == [rt EXCEPT
                    !.revReply = Append(@, <<rt.i, rt.j, reply>>),
                    !.results = ResultsAfter(rt, reply)]
           nxt == IF rt.j < Len(rt.venues) THEN <<rt.i, rt.j + 1>>
                  ELSE <<rt.i + 1, 1>>
       IN rt' = ContinueReverse(r1, nxt[1], nxt[2])
    /\ UNCHANGED <<trackVars, algVars, lbVars, logVars, pollVars, blockVars>>

InitRT == RtIdle /\ TrackInit /\ AlgIdle /\ PollIdle /\ BlockIdle /\ LogIdle /\ LbIdle
NextRT ==
    \/ \E c \in RtInputs : RtStart(c.venues, c.t0, c.notionalUSD, c.gas)
    \/ \E reply \in FwdReplies \cup {SellAtTwo(rt)} : ForwardReply(reply)
    \/ \E reply \in RevReplies \cup {BuyAtHalf(rt)} : ReverseReply(reply)
SpecRT == InitRT /\ [][NextRT]_vars

RtRan == rt.pc = "done" /\ rt.priced

\* C9 (as claimed): a reverse quote is requested at venue j with input venue
\* i's forward output for every ordered pair i # j whose forward quote
\* succeeded, a forward output of zero included, for no other pair, and the
\* result holds one RoundTrip per such pair whose reverse quote succeeded.
C9_ReverseForEverySuccess ==
    RtRan =>
      LET n == Len(rt.venues) IN
      /\ \A i, j \in 1..n :
            (i # j /\ rt.fwdReply[i] # NullAmt)
               <=> <<i, j, rt.fwdReply[i]>> \in Range(rt.asked)
      /\ \A i, j \in 1..n :
            (\E x \in 1..Len(rt.results) : rt.results[x].i = i /\ rt.results[x].j = j)
            <=> (i # j /\ rt.fwdReply[i] # NullAmt
                   /\ \E y \in 1..Len(rt.revReply) :
                        rt.revReply[y][1] = i /\ rt.revReply[y][2] = j
                          /\ rt.revReply[y][3] # NullAmt)

C11_ReverseFailureIsolated ==
    (rt.pc \in {"reverse", "done"} /\ rt.priced) =>
      /\ \A y \in 1..Len(rt.revReply) :
            (rt.revReply[y][3] # NullAmt)
              <=> (\E x \in 1..Len(rt.results) :
                     /\ rt.results[x].i = rt.revReply[y][1]
                     /\ rt.results[x].j = rt.revReply[y][2]
                     /\ rt.results[x].amountBack = rt.revReply[y][3])
      /\ Len(rt.results) =
            Cardinality({ y \in 1..Len(rt.revReply) : rt.revReply[y][3] # NullAmt })
      /\ rt.pc = "done" =>
            \A i, j \in 1..Len(rt.venues) :
               (i # j /\ ~Falsy(rt.fwdReply[i]))
                 => Cardinality({ y \in 1..Len(rt.revReply) :
                                    rt.revReply[y][1] = i /\ rt.revReply[y][2] = j }) = 1

\* a returned call in which a reverse quote failed between two that succeeded
C11_Witness ==
    /\ RtRan
    /\ \E y \in 2..(Len(rt.revReply) - 1) :
          /\ rt.revReply[y][3] = NullAmt
          /\ rt.revReply[y - 1][3] # NullAmt
          /\ rt.revReply[y + 1][3] # NullAmt
    /\ Len(rt.results) = Len(rt.revReply) - 1

\* C21 (as claimed): the input amount is rounded down: valued at the
\* reference price it never exceeds notionalUSD (both sides in units of
\* 10^-decimals USD).
C21_RoundedDown ==
    (rt.pc # "idle" /\ rt.priced) =>
      rt.amountIn0 * rt.t0.priceUSD <= rt.notionalUSD * Pow10(rt.t0.decimals)

\* result x of the call bought on a venue giving 2 asset1 per asset0 and sold
\* on a venue giving 0.5 asset0 per asset1
Reciprocal(x) ==
    /\ rt.fwdReply[rt.results[x].i] = 2 * rt.amountIn0
    /\ rt.results[x].amountBack = rt.fwdReply[rt.results[x].i] \div 2

\* C22: a RoundTrip through reciprocal, fee-free venues has spreadPct 0,
\* whatever the notional, the price and the direction.
C22_ReciprocalSpreadZero ==
    (rt.pc \in {"reverse", "done"} /\ rt.priced) =>
      \A x \in 1..Len(rt.results) :
         Reciprocal(x) => rt.results[x].spreadPct = 0

\* a returned call over two reciprocal venues with a RoundTrip in each
\* direction, for an input amount that is not a round number
C22_Witness ==
    /\ RtRan
    /\ rt.notionalUSD = 200 /\ rt.t0 = [priceUSD |-> 3, decimals |-> 2]
    /\ rt.venues = <<"A", "B">>
    /\ Len(rt.results) = 2
    /\ \A x \in 1..2 : Reciprocal(x) /\ rt.results[x].spreadPct = 0
    /\ rt.results[1].direction = <<"A", "B">>
    /\ rt.results[2].direction = <<"B", "A">>

\* result x of the call has input value 1000 USD, output value 1004 USD and
\* a gas cost of 0.05 USD
Example1004(x) ==
    /\ rt.t0.priceUSD = 1 /\ rt.t0.decimals = 0
    /\ rt.amountIn0 = 1000
    /\ rt.results[x].amountBack = 1004
    /\ rt.gas = 5

C37_DirectionsDistinct ==
    RtRan =>
      \A x, y \in 1..Len(rt.results) :
         x # y => rt.results[x].direction # rt.results[y].direction

\* ------------------------------------------------------------------------
\* Block poller: setInterval(pollBlock, POLL_INTERVAL_MS)
\* ------------------------------------------------------------------------
\* pairState: the pairs set up by main()
PairState == {1, 2}

\* bound: number of pollBlock activations that get past the isChecking test
MaxTicks == 2
\* bound: highest block number the chain reaches
MaxHead == 2

\* the chain produces a block
NewBlock ==
    /\ chainHead < MaxHead
    /\ chainHead' = chainHead + 1
    /\ UNCHANGED <<lastBlock, isChecking, pollers, monStats>>
    /\ UNCHANGED <<trackVars, algVars, rtVars, lbVars, logVars, pollVars>>

BlockChanged_Differs(currentBlock, last) == currentBlock # last
\* `if (currentBlock <= lastBlock) return`: only a block above lastBlock
\* is checked
BlockChanged(currentBlock, last) == currentBlock > last

\* the interval timer calls pollBlock: `if (isChecking) return`, else the
\* activation runs up to `await provider.getBlockNumber()`
Tick ==
    /\ Len(pollers) < MaxTicks
    /\ pollers' = IF isChecking THEN pollers
                  ELSE Append(pollers, [pc |-> "awaitBlock", reqHead |-> chainHead,
                                        block |-> 0, pending |-> {},
                                        checked |-> {}, rejected |-> 0])
    /\ UNCHANGED <<lastBlock, isChecking, chainHead, monStats>>
    /\ UNCHANGED <<trackVars, algVars, rtVars, lbVars, logVars, pollVars>>

\* getBlockNumber resolved with b, a block number the chain had between the
\* request and now.  `if (currentBlock <= lastBlock) return` leaves through
\* the finally; otherwise the batch starts: every checkPair runs up to its
\* first await (recordStat("swapsDetected")).
BlockReply(p, b) ==
    /\ pollers[p].pc = "awaitBlock"
    /\ b \in pollers[p].reqHead .. chainHead
    /\ IF ~BlockChanged(b, lastBlock)
       THEN /\ pollers' = [pollers EXCEPT ![p].pc = "done", ![p].block = b]
            /\ isChecking' = FALSE
            /\ UNCHANGED <<lastBlock, monStats>>
       ELSE /\ lastBlock' = b
            /\ isChecking' = TRUE
            /\ pollers' = [pollers EXCEPT ![p].pc = "awaitChecks", ![p].block = b,
                                          ![p].pending = PairState]
            /\ monStats' = [monStats EXCEPT
                              !.swapsDetected = @ + Cardinality(PairState)]
    /\ UNCHANGED chainHead
    /\ UNCHANGED <<trackVars, algVars, rtVars, lbVars, logVars, pollVars>>

\* getBlockNumber rejected: catch, then finally
BlockFail(p) ==
    /\ pollers[p].pc = "awaitBlock"
    /\ pollers' = [pollers EXCEPT ![p].pc = "done"]
    /\ isChecking' = FALSE
    /\ UNCHANGED <<lastBlock, chainHead, monStats>>
    /\ UNCHANGED <<trackVars, algVars, rtVars, lbVars, logVars, pollVars>>

CountErrors_Once(st, rejected) ==
    [st EXCEPT !.errors = IF rejected > 0 THEN @ + 1 ELSE @]
\* for (const r of results) if (r.status === "rejected") recordStat("errors")
CountErrors(st, rejected) == [st EXCEPT !.errors = @ + rejected]

\* one checkPair of the batch of p settled (fulfilled or rejected); when it
\* was the last one Promise.allSettled resolves: count the errors, finally
CheckSettled(p, ps, rejects) ==
    /\ pollers[p].pc = "awaitChecks"
    /\ ps \in pollers[p].pending
    /\ LET rej == pollers[p].rejected + (IF rejects THEN 1 ELSE 0) IN
       IF pollers[p].pending = {ps}
       THEN /\ pollers' = [pollers EXCEPT ![p].pc = "done", ![p].pending = {},
                                          ![p].checked = @ \cup {ps},
                                          ![p].rejected = rej]
            /\ monStats' = CountErrors(monStats, rej)
            /\ isChecking' = FALSE
       ELSE /\ pollers' = [pollers EXCEPT ![p].pending = @ \ {ps},
                                          ![p].checked = @ \cup {ps},
                                          ![p].rejected = rej]
            /\ UNCHANGED <<monStats, isChecking>>
    /\ UNCHANGED <<lastBlock, chainHead>>
    /\ UNCHANGED <<trackVars, algVars, rtVars, lbVars, logVars, pollVars>>

InitBlock == BlockIdle /\ TrackInit /\ AlgIdle /\ RtIdle /\ PollIdle /\ LogIdle /\ LbIdle
NextBlock ==
    \/ NewBlock
    \/ Tick
    \/ \E p \in DOMAIN pollers, b \in 1..MaxHead : BlockReply(p, b)
    \/ \E p \in DOMAIN pollers : BlockFail(p)
    \/ \E p \in DOMAIN pollers, ps \in PairState, rejects \in BOOLEAN :
          CheckSettled(p, ps, rejects)
SpecBlock == InitBlock /\ [][NextBlock]_vars

BatchesInFlight == { p \in DOMAIN pollers : pollers[p].pc = "awaitChecks" }

\* the activations whose batch has settled
BatchesDone ==
    { p \in DOMAIN pollers : pollers[p].pc = "done" /\ pollers[p].checked # {} }

\* C17: a rejected checkPair affects only its own pair: every pair of a
\* started batch is checked (one swapsDetected each), the batch settles
\* with every pair checked whatever was rejected, and the errors counter is
\* the number of rejected checkPair calls of the settled batches.
C17_PairFailureIsolated ==
    /\ \A p \in BatchesInFlight :
          pollers[p].pending \cup pollers[p].checked = PairState
    /\ \A p \in BatchesDone : pollers[p].checked = PairState
    /\ monStats.swapsDetected =
          Cardinality(PairState) * Cardinality(BatchesInFlight \cup BatchesDone)
    /\ monStats.errors =
          SumOver([p \in BatchesDone |-> pollers[p].rejected], BatchesDone)

\* two batches have settled: in one both pairs were rejected, in the other
\* one pair was rejected and the other checked
C17_Witness ==
    /\ \E p, q \in BatchesDone :
          pollers[p].rejected = 2 /\ pollers[q].rejected = 1
    /\ monStats.errors = 3

\* C4 (as claimed): at most one batch of checkPair calls is in flight, and
\* isChecking is true for as long as a batch is in flight.
C4_OneBatchInFlight ==
    /\ Cardinality(BatchesInFlight) <= 1
    /\ BatchesInFlight # {} => isChecking

\* the activations that started a batch of checkPair calls
BatchesStarted == BatchesInFlight \cup BatchesDone

\* C39: lastBlock never decreases, a batch is started for a block above the
\* block of every batch started before it, and no two batches are for the
\* same block, whatever the order of ticks and getBlockNumber responses.
C39_BatchBlocksIncrease ==
    [][/\ lastBlock' >= lastBlock
       /\ \A p \in BatchesStarted' \ BatchesStarted :
             \A q \in BatchesStarted : pollers'[p].block > pollers[q].block
       /\ \A p, q \in BatchesStarted' :
             p # q => pollers'[p].block # pollers'[q].block]_vars

\* two activations overlapped and both started a batch, for blocks 1 and 2;
\* both batches are in flight
C39_Witness ==
    /\ \E p, q \in BatchesInFlight :
          pollers[p].block = 1 /\ pollers[q].block = 2
    /\ lastBlock = 2

\* ------------------------------------------------------------------------
\* Spread logger main loop: `await poll(); setInterval(poll, POLL_INTERVAL)`
\* A poll activation is suspended at `await provider.getBlockNumber()`, at
\* each `await calculateRoundTrips(pair, notional)` and at
\* `await fetchTokenPrices()`; between two suspensions it runs alone.
\* ------------------------------------------------------------------------
\* the (pair, notional) combinations in the order of the two for loops
PollOrder == << <<"P1", 100>>, <<"P1", 300>> >>

\* GAS_COST_USD / notional * 100, in 10^-4 percent (gasCostUSD 0.10)
GasPct(notional) == RoundDiv(100000, notional)

\* the spreads a RoundTrip of a cycle may carry: at the noise floor, below
\* the spike threshold, above it
TripSpreads == {-20000, 2000, 4000}
\* if (spread > -2.0): the noise floor of the JSONL log
NOISE_FLOOR == -20000
\* summary and price refresh every 10 cycles
SUMMARY_EVERY == 10

Trip(d, x) == [direction |-> d, spreadPct |-> x]

\* what one calculateRoundTrips call may return (a RoundTrip for each
\* direction whose reverse quote succeeded, in loop order): no trip, one
\* trip, or both directions
TripBatches ==
    { << >>,
      << Trip("A>B", -20000) >>,
      << Trip("A>B", 4000) >>,
      << Trip("A>B", 4000), Trip("B>A", 2000) >> }

\* bound: number of poll activations explored
MaxPolls == 2

StatsAfterTrip_Bands(sts, sKey, spread, net) ==
    IF sKey \notin DOMAIN sts THEN sts
    ELSE [sts EXCEPT
            ![sKey].checks = @ + 1,
            ![sKey].totalNetPct = @ + net,
            ![sKey].bestSpread = IF spread > @ THEN spread ELSE @,
            ![sKey].spikes03 = IF spread >= 3000 /\ spread < 5000 THEN @ + 1 ELSE @,
            ![sKey].spikes05 = IF spread >= 5000 /\ spread < 10000 THEN @ + 1 ELSE @,
            ![sKey].spikes1 = IF spread >= 10000 THEN @ + 1 ELSE @]
StatsAfterTrip_Strict(sts, sKey, spread, net) ==
    IF sKey \notin DOMAIN sts THEN sts
    ELSE [sts EXCEPT
            ![sKey].checks = @ + 1,
            ![sKey].totalNetPct = @ + net,
            ![sKey].bestSpread = IF spread > @ THEN spread ELSE @,
            ![sKey].spikes03 = IF spread > 3000 THEN @ + 1 ELSE @,
            ![sKey].spikes05 = IF spread > 5000 THEN @ + 1 ELSE @,
            ![sKey].spikes1 = IF spread > 10000 THEN @ + 1 ELSE @]
\* the statistics block of poll for one trip
StatsAfterTrip(sts, sKey, spread, net) ==
    IF sKey \notin DOMAIN sts THEN sts
    ELSE [sts EXCEPT
            ![sKey].checks = @ + 1,
            ![sKey].totalNetPct = @ + net,
            ![sKey].bestSpread = IF spread > @ THEN spread ELSE @,
            ![sKey].spikes03 = IF spread >= 3000 THEN @ + 1 ELSE @,
            ![sKey].spikes05 = IF spread >= 5000 THEN @ + 1 ELSE @,
            ![sKey].spikes1 = IF spread >= 10000 THEN @ + 1 ELSE @]

\* the JSONL record of a trip
Record(block, pair, notional, trip) ==
    [block |-> block, pair |-> pair, dir |-> trip.direction,
     notional |-> notional, spreadPct |-> trip.spreadPct]

RECURSIVE ProcessTrips(_, _, _, _, _, _)
\* `for (const trip of trips) { ... }` on the state w = [tr, st, ev, ob, out];
\* failAt is the index of the trip whose fs.appendFileSync throws (0: none):
\* the exception leaves the for loop for the enclosing catch
ProcessTrips(w, pair, notional, block, trips, failAt) ==
    IF trips = << >> THEN w
    ELSE
      LET trip == Head(trips)
          key == TrackerKey(pair, trip.direction, notional)
          sKey == <<pair, notional>>
          spread == trip.spreadPct
          st1 == StatsAfterTrip(w.st, sKey, spread, spread - GasPct(notional))
          cur == w.tr[key]
          w1 == [tr |-> [w.tr EXCEPT ![key] = SpikeAfter(cur, spread, block)],
                 st |-> StatsAfterTrack(st1, key, cur, spread),
                 ev |-> [w.ev EXCEPT ![key] = @ \o EventOf(key, cur, spread)],
                 ob |-> [w.ob EXCEPT ![key] = Append(@, spread)],
                 out |-> w.out]
          logged == spread > NOISE_FLOOR
      IN IF logged /\ failAt = 1 THEN w1
         ELSE ProcessTrips(
                 [w1 EXCEPT !.out = IF logged
                                    THEN Append(@, Record(block, pair, notional, trip))
                                    ELSE @],
                 pair, notional, block, Tail(trips), failAt - 1)

\* the trips of a batch that pass `if (spread > -2.0)`
AboveFloor(trips) ==
    { x \in 1..Len(trips) : trips[x].spreadPct > NOISE_FLOOR }

\* fs.appendFileSync throws while the batch is processed
AppendFails(trips, failAt) == failAt \in AboveFloor(trips)

\* the catch of the inner try: if (cycle <= 2) console.log(...)
Reports(c) == c <= 2

\* the statistics entries a summary loops over: for each notional of
\* NOTIONALS the keys ending in it, `s.checks === 0` skipped
Counted(sts) == { k \in DOMAIN sts : k[2] \in Notionals /\ sts[k].checks > 0 }

RECURSIVE BestOver(_, _, _)
\* if (s.bestSpread > bestOverall) bestOverall = s.bestSpread, over S
BestOver(sts, S, best) ==
    IF S = {} THEN best
    ELSE LET k == CHOOSE x \in S : TRUE
         IN BestOver(sts, S \ {k}, MaxOf(best, sts[k].bestSpread))

\* let bestOverall = -999, then the loop
BestOverall(sts) == BestOver(sts, Counted(sts), -9990000)
\* if (s.spikes05 > 0) anyPositive = true
AnyPositive(sts) == \E k \in Counted(sts) : sts[k].spikes05 > 0
\* if (s.persistent2 > 0) anyPersistent = true
AnyPersistent(sts) == \E k \in Counted(sts) : sts[k].persistent2 > 0

\* the lines of a summary: one per counted entry, with its counters
SummaryLines(sts) == [k \in Counted(sts) |-> sts[k]]

SummaryVerdict_PositiveFirst(sts) ==
    IF AnyPositive(sts) THEN "EXTEND"
    ELSE IF AnyPersistent(sts) THEN "PROMOTE"
    ELSE IF BestOverall(sts) >= 3000 THEN "BORDERLINE"
    ELSE "KILL"
\* the VERDICT of writeSummaryFile
SummaryVerdict(sts) ==
    IF AnyPersistent(sts) THEN "PROMOTE"
    ELSE IF AnyPositive(sts) THEN "EXTEND"
    ELSE IF BestOverall(sts) >= 3000 THEN "BORDERLINE"
    ELSE "KILL"

\* the VERDICT of the SIGINT handler
FinalVerdict(sts) ==
    IF AnyPersistent(sts) THEN "PROMOTE"
    ELSE IF AnyPositive(sts) THEN "EXTEND"
    ELSE IF BestOverall(sts) >= 3000 THEN "BORDERLINE"
    ELSE "KILL"

\* writeSummaryFile(outDir, startTime): the file it writes; `of` is history,
\* the statistics it was computed from
writeSummaryFile(sts) ==
    [verdict |-> SummaryVerdict(sts), best |-> BestOverall(sts),
     lines |-> SummaryLines(sts), of |-> sts]

\* what the SIGINT handler prints: the statistics lines and the verdict,
\* nothing of spikeTracker
FinalReport(sts) ==
    [verdict |-> FinalVerdict(sts), best |-> BestOverall(sts),
     lines |-> SummaryLines(sts), of |-> sts]

\* if (cycle % 60 === 0 || cycle === 1) writeSummaryFile(outDir, startTime)
SummaryDue(c) == c % 60 = 0 \/ c = 1
SummaryAfter(sts) ==
    IF SummaryDue(cycle) THEN writeSummaryFile(sts) ELSE summaryFile

\* a poll activation; produced, failed, reported, rejected, cyc, fed and
\* returned are history: the RoundTrips above the noise floor it received,
\* the appends that threw, the failures it printed, the calculateRoundTrips
\* calls that rejected, the value of `cycle` after its cycle++, the keys it
\* passed to trackPersistence and the RoundTrips it received in all
Activation(initial) ==
    [pc |-> "awaitBlock", block |-> 0, pos |-> 0, initial |-> initial,
     produced |-> 0, failed |-> 0, reported |-> 0, rejected |-> 0,
     cyc |-> 0, fed |-> {}, returned |-> 0]

InProgress == { p \in DOMAIN polls : polls[p].pc # "done" }

\* the end of a poll activation; the continuation of `await poll()` in main
\* then starts the interval timer
Finish(p, act) ==
    /\ polls' = [polls EXCEPT ![p] = [act EXCEPT !.pc = "done"]]
    /\ timerOn' = (timerOn \/ act.initial)

\* after the two for loops: the summary and the price refresh every 10
\* cycles, then the summary file when it is due (the 24 h auto-shutdown
\* lies beyond the cycles explored); sts is the statistics at that moment
AfterLoops(p, act, sts) ==
    IF cycle % SUMMARY_EVERY = 0
    THEN /\ polls' = [polls EXCEPT ![p] = [act EXCEPT !.pc = "awaitPrices"]]
         /\ UNCHANGED <<timerOn, summaryFile>>
    ELSE /\ Finish(p, act)
         /\ summaryFile' = SummaryAfter(sts)

\* the end of one iteration of the inner for loop: the next
\* (pair, notional) is awaited or the loops end
NextIteration(p, act, sts) ==
    IF act.pos < Len(PollOrder)
    THEN /\ polls' = [polls EXCEPT ![p] = [act EXCEPT !.pos = @ + 1]]
         /\ UNCHANGED <<timerOn, summaryFile>>
    ELSE AfterLoops(p, act, sts)

\* the interval timer fires: poll() is called, whatever else is in progress
TimerTick ==
    /\ ~exited
    /\ timerOn
    /\ Len(polls) < MaxPolls
    /\ polls' = Append(polls, Activation(FALSE))
    /\ UNCHANGED <<timerOn, cycle, outFile, exited, summaryFile, finalReport,
                   chainHead>>
    /\ UNCHANGED <<trackVars, algVars, rtVars, lbVars, logVars, lastBlock, isChecking, pollers, monStats>>

\* the chain produces a block
PollNewBlock ==
    /\ ~exited
    /\ chainHead < MaxHead
    /\ chainHead' = chainHead + 1
    /\ UNCHANGED <<pollVars, trackVars, algVars, rtVars, lbVars, logVars, lastBlock, isChecking, pollers, monStats>>

\* getBlockNumber resolved: cycle++, then the first calculateRoundTrips
PollBlockReply(p) ==
    /\ ~exited
    /\ polls[p].pc = "awaitBlock"
    /\ cycle' = cycle + 1
    /\ polls' = [polls EXCEPT ![p].pc = "awaitTrips", ![p].block = chainHead,
                              ![p].pos = 1, ![p].cyc = cycle + 1]
    /\ UNCHANGED <<timerOn, outFile, exited, summaryFile, finalReport,
                   chainHead>>
    /\ UNCHANGED <<trackVars, algVars, rtVars, lbVars, logVars, lastBlock, isChecking, pollers, monStats>>

\* getBlockNumber rejected: the outer catch prints "Poll error"
PollBlockFail(p) ==
    /\ ~exited
    /\ polls[p].pc = "awaitBlock"
    /\ Finish(p, polls[p])
    /\ UNCHANGED <<cycle, outFile, exited, summaryFile, finalReport, chainHead>>
    /\ UNCHANGED <<trackVars, algVars, rtVars, lbVars, logVars, lastBlock, isChecking, pollers, monStats>>

\* calculateRoundTrips resolved with trips: the trips are processed, then
\* the next (pair, notional) is awaited or the loops end
TripsResolved(p, trips, failAt) ==
    /\ ~exited
    /\ polls[p].pc = "awaitTrips"
    /\ LET pn == PollOrder[polls[p].pos]
           w == ProcessTrips([tr |-> spikeTracker, st |-> stats, ev |-> events,
                              ob |-> obsLog, out |-> outFile],
                             pn[1], pn[2], polls[p].block, trips, failAt)
       IN /\ spikeTracker' = w.tr
          /\ stats' = w.st
          /\ events' = w.ev
          /\ obsLog' = w.ob
          /\ outFile' = w.out
          /\ NextIteration(p,
                [polls[p] EXCEPT
                    !.produced = @ + Cardinality(AboveFloor(trips)),
                    !.failed = IF AppendFails(trips, failAt) THEN @ + 1 ELSE @,
                    !.reported = IF AppendFails(trips, failAt) /\ Reports(cycle)
                                 THEN @ + 1 ELSE @,
                    !.fed = @ \cup { k \in Keys : w.ob[k] # obsLog[k] },
                    !.returned = @ + Len(trips)],
                w.st)
    /\ UNCHANGED <<cycle, exited, finalReport, chainHead>>
    /\ UNCHANGED <<algVars, rtVars, lbVars, logVars, lastBlock, isChecking, pollers, monStats>>

\* calculateRoundTrips rejected: the catch of the inner try, then the next
\* (pair, notional)
TripsRejected(p) ==
    /\ ~exited
    /\ polls[p].pc = "awaitTrips"
    /\ NextIteration(p,
          [polls[p] EXCEPT
              !.rejected = @ + 1,
              !.reported = IF Reports(cycle) THEN @ + 1 ELSE @],
          stats)
    /\ UNCHANGED <<cycle, outFile, exited, finalReport, chainHead>>
    /\ UNCHANGED <<trackVars, algVars, rtVars, lbVars, logVars, lastBlock, isChecking, pollers, monStats>>

\* fetchTokenPrices settled (its rejection is swallowed by .catch)
PricesRefreshed(p) ==
    /\ ~exited
    /\ polls[p].pc = "awaitPrices"
    /\ Finish(p, polls[p])
    /\ summaryFile' = SummaryAfter(stats)
    /\ UNCHANGED <<cycle, outFile, exited, finalReport, chainHead>>
    /\ UNCHANGED <<trackVars, algVars, rtVars, lbVars, logVars, lastBlock, isChecking, pollers, monStats>>

\* SIGINT (Ctrl+C, or the 24h auto-shutdown): final report, process.exit(0)
Sigint ==
    /\ ~exited
    /\ exited' = TRUE
    /\ finalReport' = FinalReport(stats)
    /\ UNCHANGED <<polls, timerOn, cycle, outFile, summaryFile, chainHead>>
    /\ UNCHANGED <<trackVars, algVars, rtVars, lbVars, logVars, lastBlock, isChecking, pollers, monStats>>

\* main() has run up to the first await of the initial poll, or the logger
\* has run nine cycles in which no venue pair produced a RoundTrip
PollInit ==
    /\ outFile = << >>
    /\ exited = FALSE
    /\ summaryFile = NoReport
    /\ finalReport = NoReport
    /\ \/ (cycle = 0 /\ timerOn = FALSE /\ polls = << Activation(TRUE) >>)
       \/ (cycle = SUMMARY_EVERY - 1 /\ timerOn = TRUE /\ polls = << >>)

InitPoll ==
    /\ PollInit /\ TrackInit /\ AlgIdle /\ RtIdle /\ LogIdle /\ LbIdle
    /\ lastBlock = 0 /\ isChecking = FALSE /\ pollers = << >>
    /\ chainHead = 1 /\ monStats = [errors |-> 0, swapsDetected |-> 0]
NextPoll ==
    \/ TimerTick
    \/ PollNewBlock
    \/ \E p \in DOMAIN polls : PollBlockReply(p)
    \/ \E p \in DOMAIN polls : PollBlockFail(p)
    \/ \E p \in DOMAIN polls, trips \in TripBatches, failAt \in 0..1 :
          TripsResolved(p, trips, failAt)
    \/ \E p \in DOMAIN polls : TripsRejected(p)
    \/ \E p \in DOMAIN polls : PricesRefreshed(p)
    \/ Sigint
SpecPoll == InitPoll /\ [][NextPoll]_vars

\* ------------------------------------------------------------------------
\* Specification of the statistics: any sequence of processed RoundTrips
\* (the body of `for (const trip of trips)`, which runs without suspension),
\* summary files and the shutdown
\* ------------------------------------------------------------------------
\* the spreads of a processed trip: below every threshold, at 0.3%, 0.5%, 1%
StatSpreads == {1000, 3000, 5000, 10000}
\* the trips processed: every spread in one direction, a loss and a spread
\* above the spike threshold in the other
StatTrips ==
    { Trip("A>B", x) : x \in StatSpreads }
    \cup { Trip("B>A", x) : x \in {-4000, 5000} }

\* bound: number of RoundTrips processed
MaxTrips == 3

TripsDone == SumOver([k \in StatKeys |-> stats[k].checks], StatKeys)

\* one iteration of `for (const trip of trips)` for (pair, notional); the
\* block is the observation index of the key, the append succeeds
ProcessTrip(pair, notional, trip) ==
    /\ ~exited
    /\ TripsDone < MaxTrips
    /\ LET key == <<pair, trip.direction, notional>>
           w == ProcessTrips([tr |-> spikeTracker, st |-> stats, ev |-> events,
                              ob |-> obsLog, out |-> outFile],
                             pair, notional, Len(obsLog[key]) + 1, <<trip>>, 0)
       IN /\ spikeTracker' = w.tr
          /\ stats' = w.st
          /\ events' = w.ev
          /\ obsLog' = w.ob
          /\ outFile' = w.out
    /\ UNCHANGED <<polls, timerOn, cycle, exited, summaryFile, finalReport>>
    /\ UNCHANGED <<algVars, rtVars, lbVars, logVars, blockVars>>

\* a cycle ended in which the summary file was due
WriteSummary ==
    /\ ~exited
    /\ summaryFile' = writeSummaryFile(stats)
    /\ summaryFile' # summaryFile
    /\ UNCHANGED <<polls, timerOn, cycle, outFile, exited, finalReport>>
    /\ UNCHANGED <<trackVars, algVars, rtVars, lbVars, logVars, blockVars>>

InitStats == TrackInit /\ AlgIdle /\ RtIdle /\ PollIdle /\ BlockIdle /\ LogIdle /\ LbIdle
NextStats ==
    \/ \E pn \in Range(PollOrder), trip \in StatTrips :
          ProcessTrip(pn[1], pn[2], trip)
    \/ WriteSummary
    \/ Sigint
SpecStats == InitStats /\ [][NextStats]_vars

\* ------------------------------------------------------------------------
\* Specification of the observation blocks: the tracker as poll feeds it,
\* with the block number each cycle read from the chain.  Two cycles may
\* read the same block, and a key may have no RoundTrip in a cycle.
\* ------------------------------------------------------------------------
\* the trips of the cycles: each direction below or above the threshold
CycleTrips == { Trip(d, x) : d \in Directions, x \in {1000, 4000} }

\* the loop body for one trip of the first (pair, notional) in a cycle that
\* read the current block number; the append succeeds
CycleTrip(trip) ==
    /\ ~exited
    /\ TripsDone < MaxTrips
    /\ LET pn == PollOrder[1]
           w == ProcessTrips([tr |-> spikeTracker, st |-> stats, ev |-> events,
                              ob |-> obsLog, out |-> outFile],
                             pn[1], pn[2], chainHead, <<trip>>, 0)
       IN /\ spikeTracker' = w.tr
          /\ stats' = w.st
          /\ events' = w.ev
          /\ obsLog' = w.ob
          /\ outFile' = w.out
    /\ UNCHANGED <<polls, timerOn, cycle, exited, summaryFile, finalReport>>
    /\ UNCHANGED <<algVars, rtVars, lbVars, logVars, blockVars>>

InitCycles == TrackInit /\ AlgIdle /\ RtIdle /\ PollIdle /\ BlockIdle /\ LogIdle /\ LbIdle
NextCycles ==
    \/ \E trip \in CycleTrips : CycleTrip(trip)
    \/ PollNewBlock
SpecCycles == InitCycles /\ [][NextCycles]_vars

\* ------------------------------------------------------------------------
\* research/arb-spread-logger.js, the single-notional variant: statistics
\* per pair name, tracker key `${pairName}_${direction}`, threshold 0.5%
\* ------------------------------------------------------------------------
ResearchKeys == Pairs \X Directions

\* initStats(name) of the variant
ResearchInitialStat ==
    [checks |-> 0, spikes05 |-> 0, spikes1 |-> 0, bestSpread |-> 0,
     persistent2 |-> 0, totalNetPct |-> 0]

\* if (spread >= 0.5) in the variant's trackPersistence
RESEARCH_THRESHOLD == 5000

\* the spreads of the variant's trips: two losses, at and above the threshold
ResearchSpreads == {-4000, -1000, 5000, 10000}

\* the SpikeState of the key after the variant's trackPersistence
ResearchSpikeAfter(st, spread, block) ==
    IF spread >= RESEARCH_THRESHOLD
    THEN IF st = NoSpike
         THEN [count |-> 1, maxSpread |-> spread, startBlock |-> block]
         ELSE [st EXCEPT !.count = st.count + 1,
                         !.maxSpread = MaxOf(st.maxSpread, spread)]
    ELSE NoSpike

\* GAS_COST_USD (0.05) / NOTIONAL_USD (1000) * 100, in 10^-4 percent
RESEARCH_GAS_PCT == 50

\* the spike of the key ended with dur >= 2
ResearchEmits(st, spread) ==
    spread < RESEARCH_THRESHOLD /\ st.count >= 1 /\ st.count >= MIN_PERSIST

\* the statistics of the pair after the loop body for one trip
ResearchStatAfter(s, st, spread) ==
    [s EXCEPT
       !.checks = @ + 1,
       !.totalNetPct = @ + (spread - RESEARCH_GAS_PCT),
       !.bestSpread = IF spread > @ THEN spread ELSE @,
       !.spikes05 = IF spread >= 5000 THEN @ + 1 ELSE @,
       !.spikes1 = IF spread >= 10000 THEN @ + 1 ELSE @,
       !.persistent2 = IF ResearchEmits(st, spread) THEN @ + 1 ELSE @]

ResearchDone == SumOver([p \in Pairs |-> stats[p].checks], Pairs)

\* one iteration of the variant's `for (const trip of trips)`: statistics,
\* trackPersistence, the JSONL record (no noise floor; the append succeeds)
ResearchTrip(pair, trip) ==
    /\ ResearchDone < MaxTrips
    /\ LET key == <<pair, trip.direction>>
           st == spikeTracker[key]
           spread == trip.spreadPct
           block == Len(obsLog[key]) + 1
       IN /\ stats' = [stats EXCEPT ![pair] = ResearchStatAfter(@, st, spread)]
          /\ spikeTracker' = [spikeTracker EXCEPT
                                 ![key] = ResearchSpikeAfter(st, spread, block)]
          /\ events' = [events EXCEPT
                           ![key] = IF ResearchEmits(st, spread)
                                    THEN Append(@, [duration |-> st.count,
                                                    maxSpread |-> st.maxSpread])
                                    ELSE @]
          /\ obsLog' = [obsLog EXCEPT ![key] = Append(@, spread)]
          /\ outFile' = Append(outFile,
                               [block |-> block, pair |-> pair,
                                dir |-> trip.direction, spreadPct |-> spread])
    /\ UNCHANGED <<polls, timerOn, cycle, exited, summaryFile, finalReport>>
    /\ UNCHANGED <<algVars, rtVars, lbVars, logVars, blockVars>>

ResearchInit ==
    /\ spikeTracker = [k \in ResearchKeys |-> NoSpike]
    /\ stats = [p \in Pairs |-> ResearchInitialStat]
    /\ events = [k \in ResearchKeys |-> << >>]
    /\ obsLog = [k \in ResearchKeys |-> << >>]

InitResearch == ResearchInit /\ AlgIdle /\ RtIdle /\ PollIdle /\ BlockIdle /\ LogIdle /\ LbIdle
NextResearch ==
    \E pair \in Pairs, d \in Directions, x \in ResearchSpreads :
       ResearchTrip(pair, Trip(d, x))
SpecResearch == InitResearch /\ [][NextResearch]_vars

\* C3 (as claimed): at most one poll() is in progress at any time.
C3_NoOverlap == Cardinality(InProgress) <= 1

\* the total of a history field over all poll activations
PollTotal(field) ==
    SumOver([p \in DOMAIN polls |-> polls[p][field]], DOMAIN polls)

\* C15 (as claimed): the JSONL file holds exactly one line per RoundTrip
\* above the noise floor produced so far (the appends that threw apart), and
\* none for a RoundTrip at or below the floor.
C15_OneLinePerLoggedTrip ==
    /\ Len(outFile) + PollTotal("failed") = PollTotal("produced")
    /\ \A x \in 1..Len(outFile) : outFile[x].spreadPct > NOISE_FLOOR

\* C30 (as claimed): a step passes the RoundTrips of one activation only to
\* trackPersistence, and the observations of a key arrive in the order of
\* the cycles: no activation passes an observation of a key that an
\* activation of a later cycle has already passed.
C30_BatchesInCycleOrder ==
    [][\A key \in Keys :
         obsLog'[key] # obsLog[key] =>
            /\ Cardinality({ q \in DOMAIN polls : polls'[q] # polls[q] }) = 1
            /\ \A q \in DOMAIN polls :
                  polls'[q] # polls[q] =>
                     ~\E p \in DOMAIN polls :
                         /\ polls[p].cyc > polls[q].cyc
                         /\ key \in polls[p].fed]_vars

\* C36 (as claimed): every RoundTrip returned by calculateRoundTrips so far
\* has been counted in the statistics once and passed to trackPersistence
\* once, whatever append failed.
C36_EveryTripCountedOnce ==
    /\ SumOver([k \in StatKeys |-> stats[k].checks], StatKeys)
          = PollTotal("returned")
    /\ NumObs = PollTotal("returned")

\* the spread logger's side of pair-level failures: whatever rejected or
\* threw in an iteration, an activation that got its block number goes
\* through every (pair, notional) before it ends
PollFailureIsolated ==
    \A p \in DOMAIN polls :
       (polls[p].pc \in {"awaitPrices", "done"} /\ polls[p].block > 0)
          => polls[p].pos = Len(PollOrder)

\* C16 (as claimed): every failed append is reported, and the activation
\* goes on: an activation that got its block number and ended has been
\* through every (pair, notional).
C16_WriteFailureReported ==
    \A p \in DOMAIN polls :
       /\ polls[p].rejected = 0 => polls[p].reported = polls[p].failed
       /\ (polls[p].pc \in {"awaitPrices", "done"} /\ polls[p].block > 0)
             => polls[p].pos = Len(PollOrder)

\* ------------------------------------------------------------------------
\* Reference semantics of persistence, from the observation history alone
\* ------------------------------------------------------------------------
ObsOf(key) == obsLog[key]
EventsOf(key) == events[key]

RECURSIVE RunEvents(_, _)
\* one event per maximal run of >= 2 at-or-above observations that has ended
RunEvents(s, run) ==
    IF s = <<>> THEN <<>>
    ELSE IF s[1] >= 3000
         THEN RunEvents(Tail(s), Append(run, s[1]))
         ELSE (IF Len(run) >= 2
               THEN << [duration |-> Len(run), maxSpread |-> SeqMax(run)] >>
               ELSE << >>) \o RunEvents(Tail(s), << >>)

EventCount(sk) ==
    SumOver([d \in Directions |-> Len(events[<<sk[1], d, sk[2]>>])], Directions)

\* C1: for every key, the PersistenceEvents emitted so far are exactly one
\* per ended run of k >= 2 consecutive at-or-above-threshold observations,
\* in order, with duration k and maxSpread the maximum of the run, and the
\* (pair, notional) counter equals the number of events of that pair and
\* notional; [0.4, 0.5, 0.2] gives one event (2, 0.5), [0.4, 0.1] none.
C1_PersistenceEvents ==
    /\ \A key \in Keys : EventsOf(key) = RunEvents(ObsOf(key), << >>)
    /\ \A sk \in StatKeys : stats[sk].persistent2 = EventCount(sk)
    /\ \A key \in Keys :
          /\ ObsOf(key) = <<4000, 5000, 2000>>
                => EventsOf(key) = << [duration |-> 2, maxSpread |-> 5000] >>
          /\ ObsOf(key) = <<4000, 1000>> => EventsOf(key) = << >>

C1_Witness ==
    \E key \in Keys :
        /\ ObsOf(key) = <<4000, 5000, 2000>>
        /\ Len(events[key]) = 1
        /\ stats[<<key[1], key[3]>>].persistent2 = 1

\* C2: after every call for a key, the key has a SpikeState iff the spread
\* of that (latest) call was at or above the threshold; a below-threshold
\* call deletes the entry whether or not an event was emitted.
C2_EntryIffAbove ==
    \A key \in Keys :
        LET o == ObsOf(key) IN
        IF o = << >> THEN spikeTracker[key] = NoSpike
        ELSE (spikeTracker[key] # NoSpike) <=> (o[Len(o)] >= 3000)

C2_Witness ==
    \E key \in Keys :
        /\ ObsOf(key) = <<4000, 1000>>
        /\ events[key] = << >>
        /\ spikeTracker[key] = NoSpike



\* the key observed by the step, and the spread it observed
Observed(key) == obsLog'[key] # obsLog[key]
LastSpread(key) == obsLog'[key][Len(obsLog'[key])]

\* C18: an observation at or above 0.3% on an Idle key creates the
\* SpikeState with count = 1 and maxSpread = that spread; an observation
\* below 0.3% on an Idle key creates no entry, prints no event and counts
\* none.
C18_IdleToActive ==
    [][\A key \in Keys :
         (Observed(key) /\ spikeTracker[key] = NoSpike) =>
            IF LastSpread(key) >= SPIKE_THRESHOLD
            THEN /\ spikeTracker'[key].count = 1
                 /\ spikeTracker'[key].maxSpread = LastSpread(key)
                 /\ spikeTracker'[key].startBlock = Len(obsLog'[key])
            ELSE /\ spikeTracker'[key] = NoSpike
                 /\ events'[key] = events[key]
                 /\ stats' = stats]_vars

\* a key that was Idle after a 0.1% observation is Active after one of
\* exactly 0.3%
C18_Witness ==
    \E key \in Keys :
       /\ obsLog[key] = <<1000, SPIKE_THRESHOLD>>
       /\ spikeTracker[key] =
            [count |-> 1, maxSpread |-> SPIKE_THRESHOLD, startBlock |-> 2]

\* C19: a trackPersistence call for one key leaves the SpikeState and the
\* events of every other key unchanged, the keys of the same pair that
\* differ only in direction or only in notional included.
C19_KeysIndependent ==
    [][\A key \in Keys :
         Observed(key) =>
            \A other \in Keys \ {key} :
               /\ spikeTracker'[other] = spikeTracker[other]
               /\ events'[other] = events[other]]_vars

\* three spikes of one pair are active at once: two directions of one
\* notional and two notionals of one direction
C19_Witness ==
    /\ spikeTracker[<<"P1", "A>B", 100>>].count = 2
    /\ spikeTracker[<<"P1", "B>A", 100>>].count = 1
    /\ spikeTracker[<<"P1", "A>B", 300>>].count = 1
    /\ spikeTracker[<<"P1", "B>A", 300>>] = NoSpike

\* ------------------------------------------------------------------------
\* Statistics, summary file and final report
\* ------------------------------------------------------------------------
\* 1 if the spread reaches the threshold, else 0
Reaches(spread, threshold) == IF spread >= threshold THEN 1 ELSE 0

\* the keys of (pair, notional) sk for which a trip is processed in the step
ProcessedFor(sk) ==
    { key \in Keys : /\ key[1] = sk[1] /\ key[3] = sk[2]
                      /\ Len(obsLog'[key]) = Len(obsLog[key]) + 1 }

\* C24: in every step the counters of every (pair, notional) do not
\* decrease; without a processed RoundTrip the entry is unchanged; a
\* processed RoundTrip adds exactly 1 to checks and 1 to each
\* threshold count exactly when its spread reaches 0.3, 0.5, 1.0 percent.
C24_CountersMonotonic ==
    [][\A sk \in StatKeys :
         LET a == stats[sk]
             b == stats'[sk]
         IN /\ b.checks >= a.checks /\ b.spikes03 >= a.spikes03
            /\ b.spikes05 >= a.spikes05 /\ b.spikes1 >= a.spikes1
            /\ b.persistent2 >= a.persistent2
            /\ ProcessedFor(sk) = {} => b = a
            /\ \A key \in ProcessedFor(sk) :
                  /\ b.checks = a.checks + 1
                  /\ b.spikes03 = a.spikes03 + Reaches(LastSpread(key), 3000)
                  /\ b.spikes05 = a.spikes05 + Reaches(LastSpread(key), 5000)
                  /\ b.spikes1 = a.spikes1 + Reaches(LastSpread(key), 10000)]_vars

\* three RoundTrips of one (pair, notional) were processed: one below every
\* threshold, one at 0.3 or 0.5 percent and one at 1 percent
C24_Witness ==
    \E sk \in StatKeys :
       /\ stats[sk].checks = 3
       /\ stats[sk].spikes03 = 2
       /\ stats[sk].spikes05 \in {1, 2}
       /\ stats[sk].spikes1 = 1

\* the reports made so far
Reported == {summaryFile, finalReport} \ {NoReport}

AllVerdicts == {"PROMOTE", "EXTEND", "BORDERLINE", "KILL"}

C26_PromoteNeedsHalfPercent ==
    \A r \in Reported :
       r.verdict = "PROMOTE" =>
          \E key \in Keys :
             \E x \in 1..(Len(obsLog[key]) - 1) :
                obsLog[key][x] >= 5000 /\ obsLog[key][x + 1] >= 5000

\* the SpikeStates of (pair, notional) sk that are active with a count of
\* MIN_PERSIST or more
ActiveSpikes(sk) ==
    { key \in Keys : /\ key[1] = sk[1] /\ key[3] = sk[2]
                      /\ spikeTracker[key].count >= MIN_PERSIST }

\* C27 (as claimed): the final report reflects every SpikeState that is
\* still active with count >= 2 at shutdown: the persistences it reports
\* for the (pair, notional) are those that ended plus those still active.
C27_ActiveSpikeReported ==
    finalReport # NoReport =>
       \A sk \in StatKeys :
          ActiveSpikes(sk) # {} =>
             /\ sk \in DOMAIN finalReport.lines
             /\ finalReport.lines[sk].persistent2
                   = EventCount(sk) + Cardinality(ActiveSpikes(sk))

\* C33: for every (pair, notional) the counters are nested:
\* checks >= spikes03 >= spikes05 >= spikes1 >= 0.
C33_CountersNested ==
    \A sk \in StatKeys :
       /\ stats[sk].checks >= stats[sk].spikes03
       /\ stats[sk].spikes03 >= stats[sk].spikes05
       /\ stats[sk].spikes05 >= stats[sk].spikes1
       /\ stats[sk].spikes1 >= 0

\* an entry whose trips were below 0.3, between 0.3 and 0.5 and between
\* 0.5 and 1 percent
C33_Witness ==
    \E sk \in StatKeys :
       /\ stats[sk].checks = 3
       /\ stats[sk].spikes03 = 2
       /\ stats[sk].spikes05 = 1
       /\ stats[sk].spikes1 = 0

RECURSIVE SumDurations(_)
\* the observations covered by a sequence of PersistenceEvents
SumDurations(evs) ==
    IF evs = << >> THEN 0 ELSE Head(evs).duration + SumDurations(Tail(evs))

\* the observations behind the events of (pair, notional) sk
Backing(sk) ==
    SumOver([d \in Directions |-> SumDurations(events[<<sk[1], d, sk[2]>>])],
            Directions)

\* C34: for every (pair, notional), 2 * persistent2 <= spikes03: the
\* counted events are the events of its directions, each covers at least
\* two observations, and together they cover no more observations than
\* were counted at or above 0.3 percent.
C34_EventsBackedTwice ==
    \A sk \in StatKeys :
       /\ 2 * stats[sk].persistent2 <= stats[sk].spikes03
       /\ stats[sk].persistent2 = EventCount(sk)
       /\ 2 * EventCount(sk) <= Backing(sk)
       /\ Backing(sk) <= stats[sk].spikes03

\* one event counted, backed by exactly two observations
C34_Witness ==
    \E sk \in StatKeys :
       stats[sk].persistent2 = 1 /\ stats[sk].spikes03 = 2

\* the statistics entry a tracker key belongs to: (pair, notional), or the
\* pair name in the single-notional variant
EntryOf(key) == IF Len(key) = 3 THEN <<key[1], key[3]>> ELSE key[1]

\* the spreads counted in entry sk, key by key
CountedSpreads(sk) ==
    UNION { Range(obsLog[key]) : key \in { k \in DOMAIN obsLog : EntryOf(k) = sk } }

\* C35 (as claimed): for every entry with checks > 0, bestSpread is the
\* largest spread of the RoundTrips counted in it, also when all of them
\* are negative.
C35_BestIsMaximum ==
    \A sk \in DOMAIN stats :
       stats[sk].checks > 0 =>
          /\ stats[sk].bestSpread \in CountedSpreads(sk)
          /\ \A x \in CountedSpreads(sk) : x <= stats[sk].bestSpread

\* the observations of a key with their blocks, in order: its JSONL records
KeyLog(key) ==
    LET OfKey(r) == /\ r.pair = key[1] /\ r.dir = key[2]
                    /\ r.notional = key[3]
    IN SelectSeq(outFile, OfKey)

\* C38 (as claimed): the observations counted in an emitted event were made
\* at distinct, consecutive blocks: any two successive observations of a
\* key at or above the threshold whose run has ended lie one block apart.
C38_EventBlocksConsecutive ==
    \A key \in Keys :
       LET log == KeyLog(key) IN
       \A x \in 1..(Len(log) - 1) :
          (/\ AboveThreshold(log[x].spreadPct)
           /\ AboveThreshold(log[x + 1].spreadPct)
           /\ \E y \in (x + 2)..Len(log) : ~AboveThreshold(log[y].spreadPct)
           /\ events[key] # << >>)
             => log[x + 1].block = log[x].block + 1

\* ------------------------------------------------------------------------
\* helpers/logger.js: logOpportunity(data) with per-pair deduplication,
\* hourly files, the size guard and pruneOldFiles.  Spreads are in units
\* of 10^-4 percent, as data.spread is priceDifference.toFixed(4).
\* ------------------------------------------------------------------------
MAX_FILE_SIZE_MB == 10
MAX_FILES == 48
DEDUP_SPREAD_DELTA == 300
DEDUP_COOLDOWN_MS == 10000

\* the pairs, directions and spreads an alert may carry
LogPairs == {"X/Y", "Z/Y"}
BuyDexes == {"MM", "Agni"}
AlertSpreads == {5000, 5200, 5400}
\* the data passed by checkPair: the first pair in one direction at every
\* spread, in the other direction at one, and the second pair
Alerts ==
    { [pair |-> "X/Y", buyDex |-> "MM", spread |-> sp] : sp \in AlertSpreads }
    \cup { [pair |-> "X/Y", buyDex |-> "Agni", spread |-> 5000],
           [pair |-> "Z/Y", buyDex |-> "MM", spread |-> 5000] }
\* the time that may pass before a call: within the cooldown, the cooldown,
\* an hour
Elapsed == {5000, DEDUP_COOLDOWN_MS, HOUR_MS}
\* the size of one JSON line
RecordBytes == 300

\* bound: number of logOpportunity calls explored
MaxAlerts == 2


\* getLogFilePath(): the stamp of the hour of `t`
getLogFilePath(t) == t \div HOUR_MS

\* resolveSpread(data): data.spread is always set by checkPair
resolveSpread(data) == data.spread

shouldLog_Always(ll, data, t) == TRUE
shouldLog(ll, data, t) ==
    LET prev == ll[data.pair] IN
    IF prev = NoLast THEN TRUE
    ELSE IF prev.direction # data.buyDex THEN TRUE
    ELSE IF t - prev.ts < DEDUP_COOLDOWN_MS THEN FALSE
    ELSE IF Abs(resolveSpread(data) - prev.spread) < DEDUP_SPREAD_DELTA
         THEN FALSE
         ELSE TRUE

updateLastLogged(ll, data, t) ==
    [ll EXCEPT ![data.pair] =
        [spread |-> resolveSpread(data), direction |-> data.buyDex, ts |-> t]]

pruneOldFiles_NewestFirst(dir) ==
    LET keep == { f \in DOMAIN dir :
                    Cardinality({ g \in DOMAIN dir : g < f }) < MAX_FILES }
    IN [f \in keep |-> dir[f]]
\* the files left after pruneOldFiles: sorted by name, the oldest are
\* unlinked while more than MAX_FILES remain
pruneOldFiles(dir) ==
    LET keep == { f \in DOMAIN dir :
                    Cardinality({ g \in DOMAIN dir : g > f }) < MAX_FILES }
    IN [f \in keep |-> dir[f]]

OverCeiling_Never(dir, file) == FALSE
\* if (fs.existsSync(filePath)) { stat.size > MAX_FILE_SIZE_MB * 1024 * 1024 }
OverCeiling(dir, file) ==
    file \in DOMAIN dir /\ dir[file] > MAX_FILE_SIZE_MB * 1024 * 1024

\* logOpportunity(data), called `dt` after the previous event.  `syncThrow`:
\* a synchronous call in the try block throws; `prune`: Math.random() < 0.01
logOpportunity(data, dt, syncThrow, prune) ==
    LET t == now + dt
        file == getLogFilePath(t)
        emit == shouldLog(lastLogged, data, t)
        guard == emit /\ ~syncThrow /\ OverCeiling(logDir, file)
        written == emit /\ ~syncThrow /\ ~guard
    IN
    /\ logCall.n < MaxAlerts
    /\ now' = t
    /\ logStats' =
         [logStats EXCEPT
            !.opportunitiesSuppressed = IF emit THEN @ ELSE @ + 1,
            !.errors = IF emit /\ syncThrow THEN @ + 1 ELSE @,
            !.opportunitiesLogged = IF written THEN @ + 1 ELSE @]
    /\ pendingWrites' = IF written THEN Append(pendingWrites, file)
                        ELSE pendingWrites
    /\ lastLogged' = IF written THEN updateLastLogged(lastLogged, data, t)
                     ELSE lastLogged
    /\ logDir' = IF written /\ prune THEN pruneOldFiles(logDir) ELSE logDir
    /\ logCall' = [n |-> logCall.n + 1, data |-> data, at |-> t,
                   ret |-> written, prev |-> lastLogged[data.pair],
                   llBefore |-> lastLogged, llAfter |-> lastLogged',
                   before |-> logStats, after |-> logStats',
                   queued |-> Len(pendingWrites),
                   queuedAfter |-> Len(pendingWrites'),
                   over |-> OverCeiling(logDir, file),
                   threw |-> emit /\ syncThrow,
                   file |-> file,
                   size |-> IF file \in DOMAIN logDir THEN logDir[file] ELSE 0,
                   pruned |-> written /\ prune,
                   removed |-> DOMAIN logDir \ DOMAIN logDir',
                   kept |-> IF written /\ prune THEN DOMAIN logDir' ELSE {},
                   keptIntact |-> \A f \in DOMAIN logDir' : logDir'[f] = logDir[f]]
    /\ UNCHANGED <<trackVars, algVars, rtVars, lbVars, pollVars, blockVars>>

\* the callback of fs.appendFile without error: the line is in the file
WriteDone ==
    /\ pendingWrites # << >>
    /\ LET file == Head(pendingWrites) IN
       logDir' = [f \in DOMAIN logDir \cup {file} |->
                     IF f = file
                     THEN (IF f \in DOMAIN logDir THEN logDir[f] ELSE 0)
                            + RecordBytes
                     ELSE logDir[f]]
    /\ pendingWrites' = Tail(pendingWrites)
    /\ UNCHANGED <<lastLogged, logStats, now, logCall>>
    /\ UNCHANGED <<trackVars, algVars, rtVars, lbVars, pollVars, blockVars>>

\* the callback of fs.appendFile with err: stats.errors++, console.error
WriteError ==
    /\ pendingWrites # << >>
    /\ pendingWrites' = Tail(pendingWrites)
    /\ logStats' = [logStats EXCEPT !.errors = @ + 1]
    /\ UNCHANGED <<lastLogged, logDir, now, logCall>>
    /\ UNCHANGED <<trackVars, algVars, rtVars, lbVars, pollVars, blockVars>>

\* LOG_DIR at process start: the files of earlier runs
InitialDir(n, cur) ==
    [f \in (1..n) \cup (IF cur = 0 THEN {} ELSE {StartHour}) |->
        IF f = StartHour THEN cur ELSE RecordBytes]

LogInit ==
    /\ lastLogged = [p \in LogPairs |-> NoLast]
    /\ logStats = [opportunitiesLogged |-> 0, opportunitiesSuppressed |-> 0,
                   errors |-> 0]
    /\ logDir \in { InitialDir(0, 0),
                     InitialDir(MAX_FILES + 1, MAX_FILE_SIZE_MB * 1024 * 1024) }
    /\ pendingWrites = << >>
    /\ now = StartHour * HOUR_MS
    /\ logCall = NoCall

InitLog == LogInit /\ TrackInit /\ AlgIdle /\ RtIdle /\ PollIdle /\ BlockIdle /\ LbIdle
NextLog ==
    \/ \E data \in Alerts, dt \in Elapsed, syncThrow, prune \in BOOLEAN :
          logOpportunity(data, dt, syncThrow, prune)
    \/ WriteDone
    \/ WriteError
SpecLog == InitLog /\ [][NextLog]_vars


\* the last call had a prior emitted alert of the same pair
HasPrior == logCall.n >= 1 /\ logCall.prev # NoLast
\* ... and came within the cooldown window of it / after the window
InCooldown == logCall.at - logCall.prev.ts < DEDUP_COOLDOWN_MS
\* the distance of the call's spread from the prior alert's
SpreadMove == Abs(logCall.data.spread - logCall.prev.spread)
\* the call was counted as suppressed
CountedSuppressed ==
    logCall.after.opportunitiesSuppressed
       = logCall.before.opportunitiesSuppressed + 1

\* C12 (as claimed): an alert that arrives once the cooldown window since
\* the last emitted alert of its pair has elapsed is emitted, even with an
\* unchanged spread (no write failure, file below the size ceiling).
C12_EmittedAfterCooldown ==
    (HasPrior /\ ~InCooldown /\ SpreadMove = 0
       /\ ~logCall.threw /\ ~logCall.over)
      => logCall.ret = TRUE

\* C13: an alert of the same pair and direction within the cooldown window
\* whose spread differs by less than the minimum delta is suppressed:
\* logOpportunity returns false, queues no write, counts one suppression
\* and nothing else, and leaves lastLogged unchanged.
C13_SuppressedInCooldown ==
    (HasPrior /\ logCall.prev.direction = logCall.data.buyDex
       /\ InCooldown /\ SpreadMove < DEDUP_SPREAD_DELTA)
      => /\ logCall.ret = FALSE
         /\ logCall.queuedAfter = logCall.queued
         /\ CountedSuppressed
         /\ logCall.after.opportunitiesLogged = logCall.before.opportunitiesLogged
         /\ logCall.after.errors = logCall.before.errors
         /\ logCall.llAfter = logCall.llBefore

\* a second alert 5 s after the first, same direction, 0.02 points away
C13_Witness ==
    /\ HasPrior /\ logCall.prev.direction = logCall.data.buyDex
    /\ InCooldown /\ SpreadMove = 200
    /\ CountedSuppressed
    /\ logCall.ret = FALSE

\* C14 (as claimed): a suppression happens only if a prior alert of the pair
\* was emitted within the cooldown window and the spread moved by no more
\* than the minimum delta; an alert within the window whose spread moved by
\* more than the delta is emitted.
C14_SuppressedOnlyIfBoth ==
    /\ (logCall.n >= 1 /\ CountedSuppressed)
         => (HasPrior /\ InCooldown /\ SpreadMove <= DEDUP_SPREAD_DELTA)
    /\ (HasPrior /\ InCooldown /\ SpreadMove > DEDUP_SPREAD_DELTA
          /\ ~logCall.threw /\ ~logCall.over)
         => logCall.ret = TRUE

C29_SizeGuardHalts ==
    (logCall.n >= 1 /\ logCall.size > 10 * 1024 * 1024) =>
       /\ logCall.ret = FALSE
       /\ logCall.queuedAfter = logCall.queued
       /\ logCall.llAfter = logCall.llBefore
       /\ logCall.after.opportunitiesLogged = logCall.before.opportunitiesLogged

\* an alert that passes deduplication and meets no error finds the file
\* over the ceiling
C29_Witness ==
    /\ logCall.n >= 1 /\ logCall.size > 10 * 1024 * 1024
    /\ shouldLog(logCall.llBefore, logCall.data, logCall.at)
    /\ ~logCall.threw
    /\ logCall.ret = FALSE


\* ------------------------------------------------------------------------
\* quoteLB(dexConfig, tokenIn, tokenOut, amountIn).  A BigInt amount is the
\* sequence of its base-2^16 digits, most significant first, LIMBS digits
\* long: the amounts below 2^144.
\* ------------------------------------------------------------------------
LIMB == 65536
LIMBS == 9
UINT128_LIMBS == 8

\* 1n << (16 * k)
BigShiftOne(k) == [i \in 1..LIMBS |-> IF i = LIMBS - k THEN 1 ELSE 0]

RECURSIVE BigDec(_)
\* a - 1n, for a > 0: borrow through the trailing zero digits
BigDec(a) ==
    LET n == Len(a) IN
    IF a[n] > 0 THEN [a EXCEPT ![n] = @ - 1]
    ELSE BigDec(SubSeq(a, 1, n - 1)) \o << LIMB - 1 >>

RECURSIVE BigGT(_, _)
\* a > b, digit by digit from the most significant one
BigGT(a, b) ==
    IF a = << >> THEN FALSE
    ELSE IF a[1] # b[1] THEN a[1] > b[1]
    ELSE BigGT(Tail(a), Tail(b))

\* const MAX_UINT128 = (1n << 128n) - 1n
MAX_UINT128 == BigDec(BigShiftOne(UINT128_LIMBS))

safeAmountIn_Wrap(amountIn) ==
    [i \in 1..LIMBS |-> IF i <= LIMBS - UINT128_LIMBS THEN 0 ELSE amountIn[i]]
\* const safeAmountIn = amountIn > MAX_UINT128 ? MAX_UINT128 : amountIn
safeAmountIn(amountIn) ==
    IF BigGT(amountIn, MAX_UINT128) THEN MAX_UINT128 ELSE amountIn

\* the amounts quoteLB may be called with: around 0, around 2^128, larger
LBAmounts ==
    { [i \in 1..LIMBS |->
          IF i = 1 THEN top ELSE IF i = LIMBS THEN low ELSE mid] :
       top \in {0, 1, 2}, mid \in {0, 1, LIMB - 1},
       low \in {0, 1, LIMB - 2, LIMB - 1} }

\* the output amounts a venue may answer
LBOutputs == {0, 7, 500}

\* the ABI encoder accepts a uint128 argument only below 2^128
FitsUint128(a) == \A i \in 1..(LIMBS - UINT128_LIMBS) : a[i] = 0

\* quoteLB up to `await quoter.findBestPathFromAmountIn(path, safeAmountIn)`;
\* an argument that does not fit uint128 is rejected by the encoder
QuoteLBStart(amountIn) ==
    /\ lb.pc = "idle"
    /\ lb' = [pc |-> IF FitsUint128(safeAmountIn(amountIn))
                     THEN "awaitQuote" ELSE "thrown",
              amountIn |-> amountIn,
              passed |-> safeAmountIn(amountIn),
              amountOut |-> NullAmt]
    /\ UNCHANGED <<trackVars, algVars, rtVars, pollVars, blockVars, logVars>>

\* the quoter answered `amounts`: return amounts[amounts.length - 1]
QuoteLBReply(amounts) ==
    /\ lb.pc = "awaitQuote"
    /\ lb' = [lb EXCEPT !.pc = "returned", !.amountOut = amounts[Len(amounts)]]
    /\ UNCHANGED <<trackVars, algVars, rtVars, pollVars, blockVars, logVars>>

\* the quoter call rejected (no route, revert, endpoint unreachable)
QuoteLBFail ==
    /\ lb.pc = "awaitQuote"
    /\ lb' = [lb EXCEPT !.pc = "thrown"]
    /\ UNCHANGED <<trackVars, algVars, rtVars, pollVars, blockVars, logVars>>

InitLB == LbIdle /\ TrackInit /\ AlgIdle /\ RtIdle /\ PollIdle /\ BlockIdle /\ LogIdle
NextLB ==
    \/ \E a \in LBAmounts : QuoteLBStart(a)
    \/ \E out \in LBOutputs : QuoteLBReply(<<0, out>>)
    \/ QuoteLBFail
SpecLB == InitLB /\ [][NextLB]_vars

\* the digits of 2^128 - 1
AllOnes128 ==
    [i \in 1..LIMBS |-> IF i <= LIMBS - UINT128_LIMBS THEN 0 ELSE LIMB - 1]

\* C20: the amount passed to the venue is min(amountIn, 2^128 - 1): an input
\* of 2^128 or more is replaced by exactly 2^128 - 1 (not by its low 128
\* bits), a smaller one is passed unchanged, and in both cases the call is
\* issued: the encoder never rejects the argument.
C20_ClampedToUint128 ==
    lb.pc # "idle" =>
       /\ lb.passed = IF \E i \in 1..(LIMBS - UINT128_LIMBS) : lb.amountIn[i] > 0
                      THEN AllOnes128 ELSE lb.amountIn
       /\ \A i \in 1..LIMBS : lb.passed[i] \in 0..(LIMB - 1)
       /\ lb.pc = "thrown" => FitsUint128(lb.passed)

\* a quote for 2^128 + 1 was issued with 2^128 - 1 and returned an output
C20_Witness ==
    /\ lb.pc = "returned"
    /\ lb.amountIn = [i \in 1..LIMBS |-> IF i \in {1, LIMBS} THEN 1 ELSE 0]
    /\ lb.passed = AllOnes128
    /\ lb.amountOut = 500

=============================================================================
